---------------------------- MODULE Spec2Model ----------------------------
(***************************************************************************)
(* The deployment tasks of fabfile.py (project "luke") as a state machine. *)
(*                                                                         *)
(* The operator invokes one task at a time (deploy or maintenance) against *)
(* one remote target.  A task is a straight line of local and remote shell *)
(* commands; Fabric aborts the task at the first command that exits        *)
(* non-zero and at the first require() whose key is missing.  The state is *)
(* what the commands act on: the local temporary snapshot directory, the   *)
(* remote site directory, the remote maintenance directory, and the list   *)
(* of commands issued by the running task.                                 *)
(*                                                                         *)
(* Directory contents are sets of paths; a path is a sequence of           *)
(* components and a component is a record [stem, ext] ("views.pyc" is      *)
(* [stem |-> "views", ext |-> "pyc"], ".htaccess" is [stem |-> "",         *)
(* ext |-> "htaccess"]), so that rsync's exclude patterns and the shell    *)
(* glob ./* are computed from the names.  Group ownership and mode bits    *)
(* are not part of the state: the chgrp commands appear in the command     *)
(* list only.                                                              *)
(***************************************************************************)
EXTENDS Naturals, Sequences, FiniteSets

VARIABLES
    env,        \* keys present in fabric's env after environment:<name>
    task,       \* task being run: "none", "deploy" or "maintenance"
    pc,         \* position in the running task, "idle", "done" or "aborted"
    git_ref,    \* deploy's first argument
    upgrade,    \* deploy's second argument, as Python received it
    state,      \* maintenance's argument
    tmpDir,     \* /tmp/blob-<repo>-<commit>/ on the operator's machine
    siteDir,    \* files below env.site_dir on the remote host
    maintDir,   \* files below env.maintenance_dir on the remote host
    issued,     \* commands issued by the running task, in order
    abort,      \* why and where the running task aborted
    lastToggle  \* history: the maintenance toggle that last ran to its end
                \* on maintDir and whose result is still in place, or "none"

vars == <<env, task, pc, git_ref, upgrade, state, tmpDir, siteDir,
          maintDir, issued, abort, lastToggle>>

---------------------------------------------------------------------------
(* Bounds of the model. *)

\* Number of paths of AllSitePaths that may exist locally or remotely.
NumSitePaths == 4

\* Number of paths of AllMaintPaths that may exist remotely.
NumMaintPaths == 3

---------------------------------------------------------------------------
(* Names and paths. *)

File(stem, ext) == [stem |-> stem, ext |-> ext]

AllSitePaths ==
    << <<File("manage", "py")>>,
       <<File("app", ""), File("views", "pyc")>>,
       <<File("legacy", "py")>>,
       <<File("env", ""), File("bin", ""), File("python", "")>>,
       <<File("assets", ""), File("custom", "styl")>>,
       <<File("bower_components", ""), File("jquery", "js")>> >>

SitePaths == {AllSitePaths[i] : i \in 1..NumSitePaths}

AllMaintPaths ==
    << <<File("index", "html")>>,
       <<File("stale", "html")>>,
       <<File("", "htaccess")>>,
       <<File("logo", "png")>> >>

MaintPaths == {AllMaintPaths[i] : i \in 1..NumMaintPaths}

\* local_dir='./maintenance/': the maintenance page shipped with the project.
LocalMaintenance ==
    MaintPaths \cap { <<File("index", "html")>>, <<File("", "htaccess")>>,
                      <<File("logo", "png")>> }

project_conf ==
    [name |-> "luke", tools |-> [stylus |-> TRUE, bower |-> FALSE]]

\* The keys the tasks ask of fabric's env with require().
EnvKeys ==
    {"hosts", "user", "group", "site_dir", "django_settings",
     "maintenance_dir", "env_name"}

DeployRequires == {"hosts", "user", "group", "site_dir", "django_settings"}

VirtualenvRequires == {"site_dir", "django_settings"}

InstallRequires == {"env_name", "site_dir"}

MaintenanceRequires == {"maintenance_dir"}

\* Git references the operator may pass; only the first one resolves.
GitRefs == {"v1.2.0", "no-such-ref"}

Resolvable(ref) == ref = "v1.2.0"

\* Values deploy's upgrade parameter can hold: a Python bool (a call, or the
\* default) or the text after "upgrade=" on the fab command line.
PyBool(b) == [type |-> "bool", text |-> IF b THEN "True" ELSE "False"]

PyStr(s) == [type |-> "str", text |-> s]

UpgradeArgs == {PyBool(TRUE), PyBool(FALSE), PyStr("True"), PyStr("False")}

\* Python's truth value, as in: 'U' if upgrade else ''.
Truthy(v) == IF v.type = "bool" THEN v.text = "True" ELSE v.text # ""

\* fabutils.utils.boolean on the two tokens the task documents.
MaintenanceStates == {"on", "off"}

boolean(s) == s = "on"

---------------------------------------------------------------------------
(* rsync and the shell glob. *)

\* The exclude list of the code upload.
Exclude ==
    { [kind |-> "suffix", val |-> "pyc"],      \* "*.pyc"
      [kind |-> "dir",    val |-> "env"],      \* "env/"
      [kind |-> "dir",    val |-> "cover"],    \* "cover/"
      [kind |-> "suffix", val |-> "style"],    \* "*.style"
      [kind |-> "name",   val |-> "bower_components"] }

\* rsync matches a pattern without "/" inside against the name of every
\* file and directory it walks; a trailing "/" restricts it to directories.
MatchesAt(pat, path, i) ==
    CASE pat.kind = "suffix" -> path[i].ext = pat.val
      [] pat.kind = "dir"    -> /\ i < Len(path)
                                /\ path[i].stem = pat.val
                                /\ path[i].ext = ""
      [] pat.kind = "name"   -> path[i].stem = pat.val /\ path[i].ext = ""

Excluded(exclude, path) ==
    \E pat \in exclude : \E i \in 1..Len(path) : MatchesAt(pat, path, i)

\* What rsync sends: every local path no pattern excludes.
Sent(local, exclude) == {p \in local : ~Excluded(exclude, p)}

\* What --delete removes: remote paths absent locally that no pattern
\* excludes (excluded paths are protected from deletion).
Extraneous(local, remote, exclude) ==
    {p \in remote : p \notin local /\ ~Excluded(exclude, p)}

\* A faulty rsync that ignores delete and removes nothing.
RsyncNoDelete(local, remote, exclude, delete) ==
    remote \cup Sent(local, exclude)

\* The remote directory after a complete rsync run.
Rsync(local, remote, exclude, delete) ==
    (remote \ (IF delete THEN Extraneous(local, remote, exclude) ELSE {}))
        \cup Sent(local, exclude)

\* The remote directories an interrupted or failed rsync run can leave.
RsyncPartial(local, remote, exclude, delete) ==
    { (remote \ D) \cup A :
        D \in SUBSET (IF delete THEN Extraneous(local, remote, exclude)
                                ELSE {}),
        A \in SUBSET (Sent(local, exclude) \ remote) }

\* bash expands ./* to the entries whose name does not start with a dot.
Hidden(path) == path[1].stem = "" /\ path[1].ext # ""

GlobStar(dir) == {p \in dir : ~Hidden(p)}

---------------------------------------------------------------------------
(* The command list and the two ways a step ends. *)

NoAbort == [kind |-> "none", at |-> "none"]

Entry(phase, cmd, ok) == [phase |-> phase, cmd |-> cmd, ok |-> ok]

Idle == pc \in {"idle", "done", "aborted"}

\* fabric's abort(): the task stops where it is.
Abort(kind) ==
    /\ pc' = "aborted"
    /\ abort' = [kind |-> kind, at |-> pc]

\* A command that exits with status 0.
Succeed(phase, cmd, next) ==
    /\ issued' = Append(issued, Entry(phase, cmd, TRUE))
    /\ pc' = next
    /\ abort' = abort

\* A faulty run(): warn_only, the task goes on after a non-zero exit.
FailContinues(phase, cmd, next) ==
    /\ issued' = Append(issued, Entry(phase, cmd, FALSE))
    /\ pc' = next
    /\ abort' = abort

\* A command that exits non-zero: run()/local() abort (no warn_only).
Fail(phase, cmd, next) ==
    /\ issued' = Append(issued, Entry(phase, cmd, FALSE))
    /\ Abort("command")

\* A command that touches nothing of the modelled state.
Command(here, phase, cmd, next) ==
    /\ pc = here
    /\ \/ Succeed(phase, cmd, next)
       \/ Fail(phase, cmd, next)

\* require(*keys): aborts when a key is missing from env.
Missing(keys) == keys \ env # {}


---------------------------------------------------------------------------
(* The initial state: an environment has been loaded, no task has run. *)

Absent == [exists |-> FALSE, files |-> {}]

\* environments.json may define every key the tasks require, or lack one.
Environments == {EnvKeys} \cup {EnvKeys \ {k} : k \in EnvKeys}

\* ./src of the project at the deployed commit: sources, a compiled file
\* that was committed, a stylesheet.
ProjectTree ==
    SitePaths \cap { <<File("manage", "py")>>,
                     <<File("app", ""), File("views", "pyc")>>,
                     <<File("assets", ""), File("custom", "styl")>> }

\* The remote directories hold anything when the operator starts.
Init ==
    /\ env \in Environments
    /\ siteDir \in SUBSET SitePaths
    /\ maintDir \in SUBSET MaintPaths
    /\ tmpDir = Absent
    /\ task = "none"
    /\ pc = "idle"
    /\ git_ref = "v1.2.0"
    /\ upgrade = PyBool(FALSE)
    /\ state = "off"
    /\ issued = << >>
    /\ abort = NoAbort
    /\ lastToggle = "none"

---------------------------------------------------------------------------
(* deploy(git_ref, upgrade=False) *)

\* A faulty deploy: the upload ahead of maintenance('on').
DeployOrderUploadFirst ==
    << "repo", "commit", "branch", "rm_tmp", "mkdir_tmp", "archive",
       "upload", "enable_maintenance",
       "install_requirements", "migrate", "bower_install", "collectstatic",
       "chgrp_site", "chgrp_media", "touch_reload", "restart_celery",
       "register_deployment",
       "disable_maintenance", "cleanup" >>

\* A faulty deploy: static collection ahead of the migration.
DeployOrderCollectFirst ==
    << "repo", "commit", "branch", "rm_tmp", "mkdir_tmp", "archive",
       "enable_maintenance", "upload",
       "install_requirements", "collectstatic", "bower_install", "migrate",
       "chgrp_site", "chgrp_media", "touch_reload", "restart_celery",
       "register_deployment",
       "disable_maintenance", "cleanup" >>

\* A faulty deploy: maintenance('off') ahead of the restarts.
DeployOrderOffEarly ==
    << "repo", "commit", "branch", "rm_tmp", "mkdir_tmp", "archive",
       "enable_maintenance", "upload",
       "install_requirements", "migrate", "bower_install", "collectstatic",
       "chgrp_site", "chgrp_media",
       "disable_maintenance",
       "touch_reload", "restart_celery", "register_deployment",
       "cleanup" >>

\* The statements of deploy's body, top to bottom.
DeployOrder ==
    << "repo", "commit", "branch", "rm_tmp", "mkdir_tmp", "archive",
       "enable_maintenance", "upload",
       "install_requirements", "migrate", "bower_install", "collectstatic",
       "chgrp_site", "chgrp_media", "touch_reload", "restart_celery",
       "register_deployment",
       "disable_maintenance", "cleanup" >>

\* The statement that follows `step`; after the last one deploy returns.
DeployNext(step) ==
    LET i == CHOOSE k \in 1..Len(DeployOrder) : DeployOrder[k] = step
    IN  IF i = Len(DeployOrder) THEN "done" ELSE DeployOrder[i + 1]

\* fab deploy:<git_ref>[,upgrade=<text>], or a call of deploy.
DeployStart(ref, upg) ==
    /\ Idle
    /\ task' = "deploy"
    /\ git_ref' = ref
    /\ upgrade' = upg
    /\ state' = "off"
    /\ issued' = << >>
    /\ IF Missing(DeployRequires)
         THEN Abort("require")
         ELSE pc' = DeployOrder[1] /\ abort' = NoAbort
    /\ UNCHANGED <<env, tmpDir, siteDir, maintDir, lastToggle>>

\* repo = ulocal('basename `git rev-parse --show-toplevel`')
GitRepoName ==
    /\ Command("repo", "snapshot", "git rev-parse --show-toplevel",
               DeployNext("repo"))
    /\ UNCHANGED <<env, task, git_ref, upgrade, state, tmpDir,
                   siteDir, maintDir, lastToggle>>

\* commit = ulocal('git rev-parse --short <git_ref>')
GitResolveCommit ==
    /\ pc = "commit"
    /\ \/ /\ Resolvable(git_ref)
          /\ Succeed("snapshot", "git rev-parse --short",
                     DeployNext("commit"))
       \/ Fail("snapshot", "git rev-parse --short", DeployNext("commit"))
    /\ UNCHANGED <<env, task, git_ref, upgrade, state, tmpDir,
                   siteDir, maintDir, lastToggle>>

\* branch = ulocal('git rev-parse --abbrev-ref HEAD')
GitBranch ==
    /\ Command("branch", "snapshot", "git rev-parse --abbrev-ref HEAD",
               DeployNext("branch"))
    /\ UNCHANGED <<env, task, git_ref, upgrade, state, tmpDir,
                   siteDir, maintDir, lastToggle>>

\* ulocal('rm -fr <tmp_dir>')
RemoveOldTmp ==
    /\ pc = "rm_tmp"
    /\ \/ /\ Succeed("snapshot", "rm -fr tmp_dir", DeployNext("rm_tmp"))
          /\ tmpDir' = Absent
       \/ /\ Fail("snapshot", "rm -fr tmp_dir", DeployNext("rm_tmp"))
          /\ tmpDir' = tmpDir
    /\ UNCHANGED <<env, task, git_ref, upgrade, state, siteDir,
                   maintDir, lastToggle>>

\* ulocal('mkdir <tmp_dir>'): mkdir refuses an existing directory.
MakeTmp ==
    /\ pc = "mkdir_tmp"
    /\ \/ /\ ~tmpDir.exists
          /\ Succeed("snapshot", "mkdir tmp_dir", DeployNext("mkdir_tmp"))
          /\ tmpDir' = [exists |-> TRUE, files |-> {}]
       \/ /\ Fail("snapshot", "mkdir tmp_dir", DeployNext("mkdir_tmp"))
          /\ tmpDir' = tmpDir
    /\ UNCHANGED <<env, task, git_ref, upgrade, state, siteDir,
                   maintDir, lastToggle>>

\* ulocal('git archive <commit> ./src | tar -xC <tmp_dir> --strip 1')
ExtractArchive ==
    /\ pc = "archive"
    /\ \/ /\ Succeed("snapshot", "git archive | tar", DeployNext("archive"))
          /\ tmpDir' = [tmpDir EXCEPT !.files = ProjectTree]
       \/ /\ Fail("snapshot", "git archive | tar", DeployNext("archive"))
          /\ \E got \in {{}, ProjectTree} :
                tmpDir' = [tmpDir EXCEPT !.files = got]
    /\ UNCHANGED <<env, task, git_ref, upgrade, state, siteDir,
                   maintDir, lastToggle>>

\* maintenance('on') called by deploy.
EnableMaintenance ==
    /\ pc = "enable_maintenance"
    /\ pc' = "m_require"
    /\ state' = "on"
    /\ UNCHANGED <<env, task, git_ref, upgrade, tmpDir, siteDir,
                   maintDir, lastToggle, issued, abort>>

\* A faulty upload: delete=False.
UploadCodeNoDelete ==
    /\ pc = "upload"
    /\ \/ /\ Succeed("upload", "rsync site_dir", DeployNext("upload"))
          /\ siteDir' = Rsync(tmpDir.files, siteDir, Exclude, FALSE)
       \/ /\ Fail("upload", "rsync site_dir", DeployNext("upload"))
          /\ siteDir' \in RsyncPartial(tmpDir.files, siteDir, Exclude, FALSE)
    /\ UNCHANGED <<env, task, git_ref, upgrade, state, tmpDir,
                   maintDir, lastToggle>>

\* ursync_project(local_dir=tmp_dir, remote_dir=env.site_dir, delete=True,
\*                exclude=[...])
UploadCode ==
    /\ pc = "upload"
    /\ \/ /\ Succeed("upload", "rsync site_dir", DeployNext("upload"))
          /\ siteDir' = Rsync(tmpDir.files, siteDir, Exclude, TRUE)
       \/ /\ Fail("upload", "rsync site_dir", DeployNext("upload"))
          /\ siteDir' \in RsyncPartial(tmpDir.files, siteDir, Exclude, TRUE)
    /\ UNCHANGED <<env, task, git_ref, upgrade, state, tmpDir,
                   maintDir, lastToggle>>

\* A provisioning command run inside virtualenv().
Provision(here, cmd) ==
    /\ pc = here
    /\ IF Missing(VirtualenvRequires)
         THEN Abort("require") /\ issued' = issued
         ELSE \/ Succeed("provision", cmd, DeployNext(here))
              \/ Fail("provision", cmd, DeployNext(here))
    /\ UNCHANGED <<env, task, git_ref, upgrade, state, tmpDir,
                   siteDir, maintDir, lastToggle>>

\* The pip command line: 'pip install -{0}r {1}'.format('U' if upgrade ...)
PipCommand(upg) ==
    IF Truthy(upg) THEN "pip install -Ur" ELSE "pip install -r"

\* install_requirements(upgrade=upgrade)
InstallRequirements ==
    /\ pc = "install_requirements"
    /\ IF Missing(VirtualenvRequires) \/ Missing(InstallRequires)
         THEN Abort("require") /\ issued' = issued
         ELSE \/ Succeed("provision", PipCommand(upgrade),
                         DeployNext("install_requirements"))
              \/ Fail("provision", PipCommand(upgrade),
                      DeployNext("install_requirements"))
    /\ UNCHANGED <<env, task, git_ref, upgrade, state, tmpDir,
                   siteDir, maintDir, lastToggle>>

\* migrate(noinput=True)
Migrate == Provision("migrate", "manage.py migrate")

\* bower_install(), called whatever project_conf['tools']['bower'] says.
BowerInstall == Provision("bower_install", "bower install")

\* collectstatic()
Collectstatic == Provision("collectstatic", "manage.py collectstatic")

\* run('chgrp -R <group> .')
ChgrpSite == Provision("chgrp_site", "chgrp -R group .")

\* run('chgrp -R <group> ../media')
ChgrpMedia == Provision("chgrp_media", "chgrp -R group ../media")

\* run('touch ../reload')
TouchReload == Provision("touch_reload", "touch ../reload")

\* run('sudo /usr/bin/supervisorctl restart <user>-celeryd')
RestartCelery == Provision("restart_celery", "supervisorctl restart")

\* register_deployment(commit, branch)
RegisterDeployment == Provision("register_deployment", "opbeat deployment")

\* maintenance('off') called by deploy.
DisableMaintenance ==
    /\ pc = "disable_maintenance"
    /\ pc' = "m_require"
    /\ state' = "off"
    /\ UNCHANGED <<env, task, git_ref, upgrade, tmpDir, siteDir,
                   maintDir, lastToggle, issued, abort>>

\* ulocal('rm -fr <tmp_dir>'), the last command of deploy.
Cleanup ==
    /\ pc = "cleanup"
    /\ \/ /\ Succeed("cleanup", "rm -fr tmp_dir", DeployNext("cleanup"))
          /\ tmpDir' = Absent
       \/ /\ Fail("cleanup", "rm -fr tmp_dir", DeployNext("cleanup"))
          /\ tmpDir' = tmpDir
    /\ UNCHANGED <<env, task, git_ref, upgrade, state, siteDir,
                   maintDir, lastToggle>>

---------------------------------------------------------------------------
(* maintenance(state) *)

\* fab maintenance:<state>
MaintenanceStart(s) ==
    /\ Idle
    /\ task' = "maintenance"
    /\ state' = s
    /\ pc' = "m_require"
    /\ git_ref' = "v1.2.0"
    /\ upgrade' = PyBool(FALSE)
    /\ issued' = << >>
    /\ abort' = NoAbort
    /\ UNCHANGED <<env, tmpDir, siteDir, maintDir, lastToggle>>

MaintenancePhase == IF boolean(state) THEN "maintenance-on"
                                      ELSE "maintenance-off"

\* Where maintenance returns to: its caller in deploy, or the end of the task.
MaintenanceReturn ==
    IF task = "deploy"
      THEN DeployNext(IF boolean(state) THEN "enable_maintenance"
                                        ELSE "disable_maintenance")
      ELSE "done"

\* require('maintenance_dir'); if boolean(state): ... else: ...
MaintenanceRequire ==
    /\ pc = "m_require"
    /\ IF Missing(MaintenanceRequires)
         THEN Abort("require")
         ELSE /\ pc' = IF boolean(state) THEN "m_rsync" ELSE "m_rm"
              /\ abort' = abort
    /\ UNCHANGED <<env, task, git_ref, upgrade, state, tmpDir,
                   siteDir, maintDir, lastToggle, issued>>

\* A faulty maintenance('on'): the rsync transfers nothing.
MaintenanceSyncSkipped ==
    /\ pc = "m_rsync"
    /\ \/ Succeed(MaintenancePhase, "rsync maintenance_dir", "m_chgrp")
       \/ Fail(MaintenancePhase, "rsync maintenance_dir", "m_chgrp")
    /\ maintDir' = maintDir
    /\ UNCHANGED <<env, task, git_ref, upgrade, state, tmpDir,
                   siteDir, lastToggle>>

\* ursync_project(local_dir='./maintenance/',
\*                remote_dir=env.maintenance_dir, delete=True)
MaintenanceSync ==
    /\ pc = "m_rsync"
    /\ \/ /\ Succeed(MaintenancePhase, "rsync maintenance_dir", "m_chgrp")
          /\ maintDir' = Rsync(LocalMaintenance, maintDir, {}, TRUE)
          /\ lastToggle' = IF lastToggle = "on" THEN "on" ELSE "none"
       \/ /\ Fail(MaintenancePhase, "rsync maintenance_dir", "m_chgrp")
          /\ maintDir' \in RsyncPartial(LocalMaintenance, maintDir, {}, TRUE)
          /\ lastToggle' = "none"
    /\ UNCHANGED <<env, task, git_ref, upgrade, state, tmpDir,
                   siteDir>>

\* with cd(env.maintenance_dir): run('chgrp -R <group> .')
MaintenanceChgrp ==
    /\ Command("m_chgrp", MaintenancePhase, "chgrp -R group maintenance_dir",
               MaintenanceReturn)
    /\ lastToggle' = IF pc' = "aborted" THEN lastToggle ELSE "on"
    /\ UNCHANGED <<env, task, git_ref, upgrade, state, tmpDir,
                   siteDir, maintDir>>

\* with cd(env.maintenance_dir): run('rm -rf ./*')
MaintenanceClear ==
    /\ pc = "m_rm"
    /\ \/ /\ Succeed(MaintenancePhase, "rm -rf ./*", MaintenanceReturn)
          /\ maintDir' = maintDir \ GlobStar(maintDir)
          /\ lastToggle' = "off"
       \/ /\ Fail(MaintenancePhase, "rm -rf ./*", MaintenanceReturn)
          /\ \E gone \in SUBSET GlobStar(maintDir) :
                maintDir' = maintDir \ gone
          /\ lastToggle' = "none"
    /\ UNCHANGED <<env, task, git_ref, upgrade, state, tmpDir,
                   siteDir>>

---------------------------------------------------------------------------

Next ==
    \/ \E ref \in GitRefs, upg \in UpgradeArgs : DeployStart(ref, upg)
    \/ GitRepoName
    \/ GitResolveCommit
    \/ GitBranch
    \/ RemoveOldTmp
    \/ MakeTmp
    \/ ExtractArchive
    \/ EnableMaintenance
    \/ UploadCode
    \/ InstallRequirements
    \/ Migrate
    \/ BowerInstall
    \/ Collectstatic
    \/ ChgrpSite
    \/ ChgrpMedia
    \/ TouchReload
    \/ RestartCelery
    \/ RegisterDeployment
    \/ DisableMaintenance
    \/ Cleanup
    \/ \E s \in MaintenanceStates : MaintenanceStart(s)
    \/ MaintenanceRequire
    \/ MaintenanceSync
    \/ MaintenanceChgrp
    \/ MaintenanceClear

Spec == Init /\ [][Next]_vars

---------------------------------------------------------------------------
(* What the properties below read off a state. *)

\* The phases of the running task in the order they were entered: the
\* phase of every issued command, runs of one phase counted once.
RECURSIVE PhasesOf(_)
PhasesOf(log) ==
    IF log = << >> THEN << >>
    ELSE LET front == PhasesOf(SubSeq(log, 1, Len(log) - 1))
             last  == log[Len(log)].phase
         IN  IF front # << >> /\ front[Len(front)] = last
               THEN front
               ELSE Append(front, last)

\* The commands of `log` that belong to `cmds`, in the order issued.
RECURSIVE Restrict(_, _)
Restrict(log, cmds) ==
    IF log = << >> THEN << >>
    ELSE LET front == Restrict(SubSeq(log, 1, Len(log) - 1), cmds)
             last  == log[Len(log)].cmd
         IN  IF last \in cmds THEN Append(front, last) ELSE front

IsPrefix(s, t) == Len(s) <= Len(t) /\ s = SubSeq(t, 1, Len(s))

IssuedAt(cmd) == {i \in DOMAIN issued : issued[i].cmd = cmd}

\* Maintenance mode is on: the remote directory holds the maintenance page.
MaintenanceIsOn == maintDir = LocalMaintenance

\* The local temporary snapshot directory is there, with the snapshot.
SnapshotPresent == tmpDir.exists /\ tmpDir.files = ProjectTree

PipCommands == {"pip install -Ur", "pip install -r"}

---------------------------------------------------------------------------
(* C1: order of the top-level phases of a completed deploy. *)

\* C1 as stated: a deploy that completes went through snapshot, upload,
\* maintenance-on, provisioning, maintenance-off and cleanup, once each and
\* in that order (the upload before maintenance mode is switched on).
C1_UploadBeforeMaintenance ==
    (task = "deploy" /\ pc = "done") =>
        PhasesOf(issued) = << "snapshot", "upload", "maintenance-on",
                              "provision", "maintenance-off", "cleanup" >>

\* C1 amended: a deploy that completes went through snapshot,
\* maintenance-on, upload, provisioning, maintenance-off and cleanup, once
\* each and in that order (maintenance mode is on before the upload).
C1_PhaseOrder ==
    (task = "deploy" /\ pc = "done") =>
        PhasesOf(issued) = << "snapshot", "maintenance-on", "upload",
                              "provision", "maintenance-off", "cleanup" >>

C1_Witness ==
    /\ task = "deploy"
    /\ pc = "done"
    /\ Len(issued) > 0
    /\ issued[Len(issued)] = Entry("cleanup", "rm -fr tmp_dir", TRUE)

---------------------------------------------------------------------------
(* C2: order of the provisioning steps. *)

ProvisionOrder ==
    << "pip install", "manage.py migrate", "manage.py collectstatic",
       "chgrp -R group .", "chgrp -R group ../media",
       "touch ../reload", "supervisorctl restart", "opbeat deployment" >>

\* The issued list with both pip command lines named "pip install".
PipNamed(log) ==
    [i \in DOMAIN log |->
        IF log[i].cmd \in PipCommands
          THEN [log[i] EXCEPT !.cmd = "pip install"]
          ELSE log[i]]

\* C2: whatever the upgrade flag, deploy issues requirements install,
\* migration, static collection, the two chgrp commands, the reload touch,
\* the celery restart and the registration in this order, each once, and
\* every command issued before the latest one has exited with status 0.
C2_ProvisionOrder ==
    task = "deploy" =>
        /\ IsPrefix(Restrict(PipNamed(issued),
                             {ProvisionOrder[k] : k \in DOMAIN ProvisionOrder}),
                    ProvisionOrder)
        /\ \A i \in DOMAIN issued : i < Len(issued) => issued[i].ok

C2_Witness ==
    /\ task = "deploy"
    /\ Truthy(upgrade)
    /\ \E i \in IssuedAt("opbeat deployment") : issued[i].ok

---------------------------------------------------------------------------
(* C3: a failing migration. *)

\* C3: when the migration command exits non-zero, deploy has aborted
\* there: nothing is issued after it, maintenance mode is still on and the
\* temporary snapshot directory is still present.
C3_MigrationFailure ==
    \A i \in IssuedAt("manage.py migrate") :
        (task = "deploy" /\ ~issued[i].ok) =>
            /\ pc = "aborted"
            /\ i = Len(issued)
            /\ MaintenanceIsOn
            /\ SnapshotPresent

C3_Witness ==
    /\ task = "deploy"
    /\ pc = "aborted"
    /\ abort = [kind |-> "command", at |-> "migrate"]
    /\ \E i \in IssuedAt("manage.py migrate") : ~issued[i].ok

---------------------------------------------------------------------------
(* C4: what an aborted deploy leaves behind. *)

SnapshotSteps ==
    {"repo", "commit", "branch", "rm_tmp", "mkdir_tmp", "archive"}

MaintenanceSteps == {"m_require", "m_rsync", "m_chgrp", "m_rm"}

UploadAndProvisionSteps ==
    {"upload", "install_requirements", "migrate", "bower_install",
     "collectstatic", "chgrp_site", "chgrp_media", "touch_reload",
     "restart_celery", "register_deployment"}

\* C4 as stated: a deploy that aborts in any phase before cleanup leaves
\* the temporary snapshot directory present and maintenance mode on.
C4_AnyPhase ==
    ( /\ task = "deploy"
      /\ pc = "aborted"
      /\ abort.at \in
           SnapshotSteps \cup MaintenanceSteps \cup UploadAndProvisionSteps )
        => (SnapshotPresent /\ MaintenanceIsOn)

\* C4 amended: a deploy that aborts in the upload or in a provisioning
\* step leaves the temporary snapshot directory present and maintenance
\* mode on; one that aborts inside maintenance('on') or maintenance('off')
\* leaves the temporary snapshot directory present.
C4_AfterSnapshot ==
    (task = "deploy" /\ pc = "aborted") =>
        /\ abort.at \in UploadAndProvisionSteps =>
              (SnapshotPresent /\ MaintenanceIsOn)
        /\ abort.at \in MaintenanceSteps => SnapshotPresent

C4_Witness ==
    /\ task = "deploy"
    /\ pc = "aborted"
    /\ abort = [kind |-> "command", at |-> "upload"]
    /\ SnapshotPresent
    /\ MaintenanceIsOn

---------------------------------------------------------------------------
(* C5: the maintenance toggle is idempotent. *)

\* The rsync of maintenance('on') ran to its end.
SyncDone == pc = "m_rsync" /\ pc' = "m_chgrp"

\* The rm of maintenance('off') ran to its end.
ClearDone == pc = "m_rm" /\ pc' # "aborted"

\* C5: from any content, maintenance('on') leaves the remote directory
\* equal to the local maintenance page, and an 'on' that follows an 'on'
\* changes nothing; maintenance('off') on an empty directory, or after an
\* 'off', changes nothing, and on an empty directory it can run to its end.
C5_Idempotent ==
    [][ /\ SyncDone => maintDir' = LocalMaintenance
        /\ (SyncDone /\ lastToggle = "on") => maintDir' = maintDir
        /\ (ClearDone /\ (maintDir = {} \/ lastToggle = "off")) =>
               maintDir' = maintDir
        /\ (pc = "m_rm" /\ maintDir = {}) =>
               ENABLED (MaintenanceClear /\ pc' # "aborted") ]_vars

C5_Witness ==
    /\ task = "maintenance"
    /\ state = "on"
    /\ pc = "m_chgrp"
    /\ lastToggle = "on"
    /\ maintDir = LocalMaintenance

---------------------------------------------------------------------------
(* C6: the code transfer leaves no stray remote file. *)

\* C6: right after the code upload has completed, every remote file of
\* the site directory is in the local snapshot or matches an exclude
\* pattern.
C6_RemoteSubset ==
    (task = "deploy" /\ pc = DeployNext("upload")) =>
        \A p \in siteDir : p \in tmpDir.files \/ Excluded(Exclude, p)

C6_Witness ==
    /\ task = "deploy"
    /\ pc = DeployNext("upload")
    /\ \E p \in siteDir : p \notin tmpDir.files
    /\ \E p \in tmpDir.files : p \notin siteDir

---------------------------------------------------------------------------
(* C7: bower install is gated by the project's capability flag. *)

\* C7: deploy issues "bower install" if and only if
\* project_conf['tools']['bower'] is true; with the flag false, static
\* collection follows the migration directly.
C7_BowerGated ==
    task = "deploy" =>
        /\ IssuedAt("bower install") # {} => project_conf.tools.bower
        /\ (project_conf.tools.bower
              /\ IssuedAt("manage.py collectstatic") # {})
             => IssuedAt("bower install") # {}

---------------------------------------------------------------------------
(* C8: pip upgrades if and only if the upgrade flag is true. *)

\* The flag the operator gave means "upgrade".
UpgradeRequested(v) == v \in {PyBool(TRUE), PyStr("True")}

\* C8: the requirements install is issued with -U if and only if the
\* upgrade flag given to deploy is true, be it given in a call or as
\* upgrade=<text> on the command line.
C8_UpgradeGated ==
    task = "deploy" =>
        \A i \in DOMAIN issued :
            issued[i].cmd \in PipCommands =>
                (issued[i].cmd = "pip install -Ur"
                    <=> UpgradeRequested(upgrade))

---------------------------------------------------------------------------
(* C9: missing environment keys are detected before anything runs. *)

\* C9: when the environment lacks a key that deploy or a task it calls
\* requires, deploy issues no command at all.
C9_KeysCheckedFirst ==
    (task = "deploy" /\ Missing(EnvKeys)) => issued = << >>

---------------------------------------------------------------------------
(* C10: maintenance-mode bracketing. *)

\* C10: in every deploy, complete or aborted, the upload and every
\* provisioning command are issued after maintenance('on') has run to its
\* end and before any command of maintenance('off'), with the maintenance
\* page in place; and maintenance('off') issues its command only after the
\* deployment registration has succeeded.
C10_Bracketing ==
    task = "deploy" =>
        /\ \A i \in DOMAIN issued :
              issued[i].phase \in {"upload", "provision"} =>
                  /\ \E j \in 1..(i - 1) :
                        issued[j] = Entry("maintenance-on",
                                          "chgrp -R group maintenance_dir",
                                          TRUE)
                  /\ \A j \in 1..(i - 1) :
                        issued[j].phase # "maintenance-off"
        /\ \A i \in DOMAIN issued :
              issued[i].phase = "maintenance-off" =>
                  \E j \in 1..(i - 1) :
                      issued[j] = Entry("provision", "opbeat deployment",
                                        TRUE)
        /\ pc \in UploadAndProvisionSteps => MaintenanceIsOn

C10_Witness ==
    /\ task = "deploy"
    /\ \E i \in DOMAIN issued :
          issued[i] = Entry("maintenance-off", "rm -rf ./*", TRUE)
    /\ \E i \in DOMAIN issued :
          issued[i] = Entry("upload", "rsync site_dir", TRUE)

=============================================================================
